---- MODULE Spec2Model ----
(***************************************************************************)
(* Model of the weather application in src/main.py: the `cities` and      *)
(* `default_cities` tables, the startup hook and the four POST handlers.  *)
(* Handlers are coroutines on one event loop, so a handler is atomic up   *)
(* to its `await`; only update_weather awaits (fetch_all_weather), which  *)
(* splits it into a begin step, one step per fetch, and a commit step.    *)
(* Times are minutes, temperatures and coordinates are integers.          *)
(***************************************************************************)
EXTENDS Integers, Sequences, FiniteSets, TLC

VARIABLES cities, default_cities, cycles, clock, started, ev, runs, hist

vars == <<cities, default_cities, cycles, clock, started, ev, runs, hist>>

\* ---------------------------------------------------------------- bounds
MaxId == 2
MaxCycles == 2
RefreshRequests == {1, 2}
Instants == {0, 15, 20}
Temps == {20, 21}
AddNames == {"P"}
AddCoords == {<<9, 9>>}

\* ------------------------------------------------------- optional values
None == <<>>
Some(v) == <<v>>

\* -------------------------------------------------------------- constants
StaleMinutes == 15

\* ------------------------------------------------------------------ rows
City(name, latitude, longitude, temperature, updated_at) ==
    [name |-> name, latitude |-> latitude, longitude |-> longitude,
     temperature |-> temperature, updated_at |-> updated_at]

DefaultCity(name, latitude, longitude) ==
    [name |-> name, latitude |-> latitude, longitude |-> longitude]

\* The bundled dataset cities.csv as the open() at startup may find it:
\* absent, well formed, or with a repeated city name.
CsvFiles ==
    { [found |-> FALSE, rows |-> <<>>],
      [found |-> TRUE, rows |-> <<DefaultCity("P", 0, 0), DefaultCity("Q", 1, 1)>>],
      [found |-> TRUE, rows |-> <<DefaultCity("P", 0, 0), DefaultCity("P", 1, 1)>>] }

UniqueNames(rows) ==
    \A i, j \in 1..Len(rows) : rows[i].name = rows[j].name => i = j

SetMax(S) == CHOOSE m \in S : \A x \in S : x <= m

\* SQLite assigns an INTEGER PRIMARY KEY the largest rowid in use plus one,
\* so the id of a deleted row is given out again.
NextRowId(tbl) == IF DOMAIN tbl = {} THEN 1 ELSE SetMax(DOMAIN tbl) + 1

InsertRow(tbl, row) ==
    [i \in DOMAIN tbl \cup {NextRowId(tbl)} |->
        IF i \in DOMAIN tbl THEN tbl[i] ELSE row]

DeleteRow(tbl, id) == [i \in DOMAIN tbl \ {id} |-> tbl[i]]

EmptyTable == [i \in {} |-> 0]

RECURSIVE InsertDefaults(_, _)
InsertDefaults(tbl, defaults) ==
    IF defaults = <<>> THEN tbl
    ELSE InsertDefaults(
            InsertRow(tbl, City(Head(defaults).name, Head(defaults).latitude,
                                Head(defaults).longitude, None, None)),
            Tail(defaults))

\* db.query(City).all(): the rows as objects of the session, in rowid order.
RECURSIVE QueryAll(_, _)
QueryAll(tbl, from) ==
    IF \A i \in DOMAIN tbl : i < from THEN <<>>
    ELSE IF from \in DOMAIN tbl
         THEN <<[id |-> from, name |-> tbl[from].name,
                 latitude |-> tbl[from].latitude,
                 longitude |-> tbl[from].longitude,
                 temperature |-> tbl[from].temperature,
                 updated_at |-> tbl[from].updated_at]>> \o QueryAll(tbl, from + 1)
         ELSE QueryAll(tbl, from + 1)

IdleCycle ==
    [pc |-> "idle", now |-> 0, cities_to_update |-> <<>>, tasks |-> <<>>,
     temperatures |-> <<>>, done |-> {}]

\* The step taken last and, for a handler, the status of its response.
Event(op, status) == [op |-> op, status |-> status, temps |-> <<>>]

\* ------------------------------------------------------------------ Init
Init ==
    /\ cities = EmptyTable
    /\ default_cities = <<>>
    /\ cycles = [c \in 1..MaxCycles |-> IdleCycle]
    /\ clock = 0
    /\ started = FALSE
    /\ runs = 0
    /\ ev = Event("import", 0)
    /\ hist = {}

\* --------------------------------------------------------------- startup
\* A (re)start of the process: requests in flight are gone with the old
\* process, the database file stays.
startup_event ==
    \E csv \in CsvFiles :
        LET load == default_cities = <<>> /\ csv.found
            fails == load /\ ~UniqueNames(csv.rows)
            defaults == IF load /\ ~fails THEN csv.rows ELSE default_cities
        IN  /\ cycles' = [c \in 1..MaxCycles |-> IdleCycle]
            /\ runs' = runs
            /\ clock' = clock
            /\ IF fails
               THEN /\ UNCHANGED <<cities, default_cities>>
                    /\ started' = FALSE
                    /\ ev' = Event("startup", 500)
               ELSE /\ default_cities' = defaults
                    /\ cities' = IF DOMAIN cities = {}
                                 THEN InsertDefaults(cities, defaults)
                                 ELSE cities
                    /\ started' = TRUE
                    /\ ev' = Event("startup", 0)

\* -------------------------------------------------------------- handlers
\* The table after each handler that does not await.
remove_city_rows(tbl, city_id) ==
    IF city_id \in DOMAIN tbl THEN DeleteRow(tbl, city_id) ELSE tbl

reset_cities_rows(defaults) == InsertDefaults(EmptyTable, defaults)

add_city_rows(tbl, name, latitude, longitude) ==
    LET existing == {i \in DOMAIN tbl : tbl[i].name = name}
    IN  IF existing = {}
        THEN InsertRow(tbl, City(name, latitude, longitude, None, None))
        ELSE tbl

remove_city(city_id) ==
    /\ started
    /\ cities' = remove_city_rows(cities, city_id)
    /\ ev' = Event("remove", 303)
    /\ UNCHANGED <<default_cities, cycles, clock, started, runs>>

\* Mutant of reset: the DELETE of the current rows is missing.
reset_cities_nodelete ==
    /\ started
    /\ cities' = InsertDefaults(cities, default_cities)
    /\ ev' = Event("reset", 303)
    /\ UNCHANGED <<default_cities, cycles, clock, started, runs>>

\* Mutant of reset: the DELETE empties the seed table as well.
reset_cities_wipeseed ==
    /\ started
    /\ cities' = reset_cities_rows(default_cities)
    /\ default_cities' = <<>>
    /\ ev' = Event("reset", 303)
    /\ UNCHANGED <<cycles, clock, started, runs>>

reset_cities ==
    /\ started
    /\ cities' = reset_cities_rows(default_cities)
    /\ ev' = Event("reset", 303)
    /\ UNCHANGED <<default_cities, cycles, clock, started, runs>>

\* Mutants of add: no duplicate check; an existing name takes the new
\* coordinates.
add_city_nocheck(name, latitude, longitude) ==
    /\ started
    /\ cities' = InsertRow(cities, City(name, latitude, longitude, None, None))
    /\ ev' = Event("add", 303)
    /\ UNCHANGED <<default_cities, cycles, clock, started, runs>>

add_city_upsert(name, latitude, longitude) ==
    /\ started
    /\ LET existing == {i \in DOMAIN cities : cities[i].name = name}
       IN  cities' = IF existing = {}
                     THEN InsertRow(cities, City(name, latitude, longitude, None, None))
                     ELSE [i \in DOMAIN cities |->
                            IF i \in existing
                            THEN [cities[i] EXCEPT !.latitude = latitude,
                                                   !.longitude = longitude]
                            ELSE cities[i]]
    /\ ev' = Event("add", 303)
    /\ UNCHANGED <<default_cities, cycles, clock, started, runs>>

add_city(name, latitude, longitude) ==
    /\ started
    /\ cities' = add_city_rows(cities, name, latitude, longitude)
    /\ ev' = Event("add", 303)
    /\ UNCHANGED <<default_cities, cycles, clock, started, runs>>

\* ------------------------------------------------------- refresh handler
\* Mutants of the filter: no filter at all, an exclusive threshold, and the
\* comparison turned around.
IsStale_always(city, now) == TRUE

IsStale_strict(city, now) ==
    city.updated_at = None \/ now - city.updated_at[1] > StaleMinutes

IsStale_inverted(city, now) ==
    city.updated_at = None \/ now - city.updated_at[1] <= StaleMinutes

IsStale(city, now) ==
    city.updated_at = None \/ now - city.updated_at[1] >= StaleMinutes

\* What the weather provider, or the transport, may answer to one GET.
Responses ==
    {[kind |-> "exception", status |-> 0, temperature |-> None]}
    \cup {[kind |-> "response", status |-> s, temperature |-> t] :
            s \in {200, 500}, t \in {None} \cup {Some(v) : v \in Temps}}

fetch_weather(response) ==
    IF response.kind = "response" /\ response.status = 200
    THEN response.temperature
    ELSE None

\* The coroutines fetch_all_weather creates, one per city and in its order.
fetch_all_weather(to_update) ==
    [k \in 1..Len(to_update) |->
        [latitude |-> to_update[k].latitude, longitude |-> to_update[k].longitude]]

\* Up to the await: query, take now, filter, dispatch. With nothing to
\* update the handler returns here.
update_weather_begin(c) ==
    /\ started
    /\ cycles[c].pc = "idle"
    /\ \A b \in 1..(c - 1) : cycles[b].pc # "idle"
    /\ LET now == clock
           to_update == SelectSeq(QueryAll(cities, 1), LAMBDA city : IsStale(city, now))
       IN  IF to_update # <<>>
           THEN /\ cycles' = [cycles EXCEPT ![c] =
                       [pc |-> "fetching", now |-> now,
                        cities_to_update |-> to_update,
                        tasks |-> fetch_all_weather(to_update),
                        temperatures |-> [k \in 1..Len(to_update) |-> None],
                        done |-> {}]]
                /\ ev' = Event("update_begin", 0)
           ELSE /\ cycles' = cycles
                /\ ev' = Event("update_begin", 303)
    /\ runs + 1 \in RefreshRequests /\ runs' = runs + 1
    /\ UNCHANGED <<cities, default_cities, clock, started>>

\* One fetch of the gather finishes with what fetch_weather returns.
fetch_done(c, k) ==
    /\ cycles[c].pc = "fetching"
    /\ k \in 1..Len(cycles[c].tasks)
    /\ k \notin cycles[c].done
    /\ \E response \in Responses :
          cycles' = [cycles EXCEPT ![c].temperatures[k] = fetch_weather(response),
                                   ![c].done = @ \cup {k}]
    /\ ev' = Event("fetch", 0)
    /\ UNCHANGED <<cities, default_cities, clock, started, runs>>

\* Mutant of the loop body: the timestamp is set outside the `if`.
Assign_stamp(city, temp, now) ==
    [city EXCEPT !.temperature = IF temp # None THEN temp ELSE @,
                 !.updated_at = Some(now)]

\* The object of the session after the loop body for one (city, temp) pair.
Assign(city, temp, now) ==
    IF temp # None
    THEN [city EXCEPT !.temperature = temp, !.updated_at = Some(now)]
    ELSE city

\* The unit of work writes an UPDATE for an object only when an attribute
\* differs from the value loaded, and SETs only the attributes that differ.
IsDirty(city, assigned) ==
    assigned.temperature # city.temperature \/ assigned.updated_at # city.updated_at

UpdateRow(row, city, assigned) ==
    [row EXCEPT
        !.temperature = IF assigned.temperature # city.temperature
                        THEN assigned.temperature ELSE @,
        !.updated_at = IF assigned.updated_at # city.updated_at
                       THEN assigned.updated_at ELSE @]

\* Mutant of the commit: no transaction around the UPDATEs, those issued
\* before the one that matches no row stay written.
Commit_partial(tbl, loaded, assigned) ==
    LET dirty == {k \in 1..Len(loaded) : IsDirty(loaded[k], assigned[k])}
        bad == {k \in dirty : loaded[k].id \notin DOMAIN tbl}
        sent == {k \in dirty : \A b \in bad : k < b}
    IN  [ok |-> bad = {},
         tbl |-> [i \in DOMAIN tbl |->
                    IF \E k \in sent : loaded[k].id = i
                    THEN LET k == CHOOSE k \in sent : loaded[k].id = i
                         IN  UpdateRow(tbl[i], loaded[k], assigned[k])
                    ELSE tbl[i]]]

\* db.commit(): UPDATE ... WHERE id = ? per dirty object in one transaction;
\* an UPDATE that matches no row raises StaleDataError and rolls back.
Commit(tbl, loaded, assigned) ==
    LET dirty == {k \in 1..Len(loaded) : IsDirty(loaded[k], assigned[k])}
    IN  IF \E k \in dirty : loaded[k].id \notin DOMAIN tbl
        THEN [ok |-> FALSE, tbl |-> tbl]
        ELSE [ok |-> TRUE,
              tbl |-> [i \in DOMAIN tbl |->
                        IF \E k \in dirty : loaded[k].id = i
                        THEN LET k == CHOOSE k \in dirty : loaded[k].id = i
                             IN  UpdateRow(tbl[i], loaded[k], assigned[k])
                        ELSE tbl[i]]]

\* Mutant of `now`: taken after the await instead of before the filter.
update_weather_commit_latenow(c) ==
    /\ cycles[c].pc = "fetching"
    /\ cycles[c].done = 1..Len(cycles[c].tasks)
    /\ LET cy == cycles[c]
           assigned == [k \in 1..Len(cy.cities_to_update) |->
                          Assign(cy.cities_to_update[k], cy.temperatures[k], clock)]
           result == Commit(cities, cy.cities_to_update, assigned)
       IN  /\ cities' = result.tbl
           /\ ev' = [Event("update_commit", IF result.ok THEN 303 ELSE 500)
                        EXCEPT !.temps = cy.temperatures]
    /\ cycles' = [cycles EXCEPT ![c] = IdleCycle]
    /\ UNCHANGED <<default_cities, clock, started, runs>>

\* Mutant of the await: the handler goes on before the gather is complete,
\* the fetches not yet answered counting as unset.
update_weather_commit_early(c) ==
    /\ cycles[c].pc = "fetching"
    /\ LET cy == cycles[c]
           assigned == [k \in 1..Len(cy.cities_to_update) |->
                          Assign(cy.cities_to_update[k], cy.temperatures[k], cy.now)]
           result == Commit(cities, cy.cities_to_update, assigned)
       IN  /\ cities' = result.tbl
           /\ ev' = [Event("update_commit", IF result.ok THEN 303 ELSE 500)
                        EXCEPT !.temps = cy.temperatures]
    /\ cycles' = [cycles EXCEPT ![c] = IdleCycle]
    /\ UNCHANGED <<default_cities, clock, started, runs>>

\* After the await: zip, assign, commit, redirect.
update_weather_commit(c) ==
    /\ cycles[c].pc = "fetching"
    /\ cycles[c].done = 1..Len(cycles[c].tasks)
    /\ LET cy == cycles[c]
           assigned == [k \in 1..Len(cy.cities_to_update) |->
                          Assign(cy.cities_to_update[k], cy.temperatures[k], cy.now)]
           result == Commit(cities, cy.cities_to_update, assigned)
       IN  /\ cities' = result.tbl
           /\ ev' = [Event("update_commit", IF result.ok THEN 303 ELSE 500)
                        EXCEPT !.temps = cy.temperatures]
    /\ cycles' = [cycles EXCEPT ![c] = IdleCycle]
    /\ UNCHANGED <<default_cities, clock, started, runs>>

\* What a fetch may return, and the table after a whole update_weather that
\* no other request overlaps, its fetches returning temps in task order.
Results == {fetch_weather(r) : r \in Responses}

ToUpdate(tbl, now) == SelectSeq(QueryAll(tbl, 1), LAMBDA city : IsStale(city, now))

update_weather_rows(tbl, now, temps) ==
    LET to_update == ToUpdate(tbl, now)
        assigned == [k \in 1..Len(to_update) |-> Assign(to_update[k], temps[k], now)]
    IN  IF to_update # <<>> THEN Commit(tbl, to_update, assigned).tbl ELSE tbl

\* Wall-clock time passes between two steps.
Tick ==
    \E t \in Instants :
        /\ t > clock
        /\ clock' = t
        /\ ev' = Event("tick", 0)
        /\ UNCHANGED <<cities, default_cities, cycles, started, runs>>

\* The program keeps no record of past fetches: hist is a history variable,
\* left alone by Spec and maintained by SpecHist below.
NoHistory == hist' = hist

Next ==
    \/ startup_event /\ NoHistory
    \/ \E id \in 1..MaxId : remove_city(id) /\ NoHistory
    \/ reset_cities /\ NoHistory
    \/ \E n \in AddNames, p \in AddCoords :
          /\ NextRowId(cities) <= MaxId \/ \E i \in DOMAIN cities : cities[i].name = n
          /\ add_city(n, p[1], p[2])
          /\ NoHistory
    \/ \E c \in 1..MaxCycles : update_weather_begin(c) /\ NoHistory
    \/ \E c \in 1..MaxCycles, k \in 1..MaxId : fetch_done(c, k) /\ NoHistory
    \/ \E c \in 1..MaxCycles : update_weather_commit(c) /\ NoHistory
    \/ Tick /\ NoHistory

Spec == Init /\ [][Next]_vars
\* ================================================================ claims
\* Reading the claims: lastRefreshedAt is updated_at, reading is temperature.
Fresh(row, now) ==
    row.updated_at # None /\ now - row.updated_at[1] < StaleMinutes

Due(row, now) ==
    row.updated_at = None \/ now - row.updated_at[1] >= StaleMinutes

IdsOf(cy) == {cy.cities_to_update[k].id : k \in 1..Len(cy.cities_to_update)}

SameRow(i) ==
    IF i \in DOMAIN cities
    THEN i \in DOMAIN cities' /\ cities'[i] = cities[i]
    ELSE i \notin DOMAIN cities'

\* The step is the begin, a fetch or the commit of the request in slot c.
Began(c) ==
    /\ ev'.op = "update_begin"
    /\ cycles[c].pc = "idle"
    /\ \A b \in 1..(c - 1) : cycles[b].pc # "idle"

Fetched(c) == ev'.op = "fetch" /\ cycles'[c] # cycles[c]

Committed(c) ==
    ev'.op = "update_commit" /\ cycles[c].pc = "fetching" /\ cycles'[c].pc = "idle"

\* C1: a refresh cycle issues no fetch for a tracked point whose updated_at
\* is set and less than 15 minutes before the cycle's now, and no step of the
\* cycle (begin, a fetch finishing, commit) changes that point's row.
C1_FreshUntouched ==
    [][\A c \in 1..MaxCycles :
          /\ Began(c) =>
                \A i \in DOMAIN cities :
                    Fresh(cities[i], clock) =>
                        /\ i \notin IdsOf(cycles'[c])
                        /\ SameRow(i)
          /\ (Fetched(c) \/ Committed(c)) =>
                \A i \in DOMAIN cities : i \notin IdsOf(cycles[c]) => SameRow(i)
      ]_vars

\* A cycle is in flight for another point while a fresh point is left out.
C1_Witness ==
    \E c \in 1..MaxCycles :
        /\ ev.op = "update_begin"
        /\ cycles[c].pc = "fetching"
        /\ cycles[c].done = {}
        /\ \E i \in DOMAIN cities :
              Fresh(cities[i], cycles[c].now) /\ i \notin IdsOf(cycles[c])

\* C2: a refresh cycle issues exactly one fetch, with the point's latitude
\* and longitude, for every tracked point whose updated_at is unset or at
\* least 15 minutes before the cycle's now; a fetch finishes once and the
\* cycle issues no further fetch afterwards.
C2_OneFetchPerStale ==
    [][\A c \in 1..MaxCycles :
          /\ Began(c) =>
                \A i \in DOMAIN cities :
                    Due(cities[i], clock) =>
                        LET cy == cycles'[c]
                            mine == {k \in 1..Len(cy.tasks) :
                                        k <= Len(cy.cities_to_update)
                                        /\ cy.cities_to_update[k].id = i}
                        IN  /\ cy.pc = "fetching"
                            /\ cy.now = clock
                            /\ Len(cy.tasks) = Len(cy.cities_to_update)
                            /\ Cardinality(mine) = 1
                            /\ \A k \in mine :
                                  /\ cy.tasks[k].latitude = cities[i].latitude
                                  /\ cy.tasks[k].longitude = cities[i].longitude
          /\ Fetched(c) =>
                /\ cycles'[c].tasks = cycles[c].tasks
                /\ cycles'[c].cities_to_update = cycles[c].cities_to_update
                /\ Cardinality(cycles'[c].done) = Cardinality(cycles[c].done) + 1
      ]_vars

\* A fetch is in flight for a point refreshed exactly 15 minutes before now.
C2_Witness ==
    \E c \in 1..MaxCycles :
        /\ cycles[c].pc = "fetching"
        /\ \E k \in 1..Len(cycles[c].cities_to_update) :
              /\ cycles[c].cities_to_update[k].updated_at # None
              /\ cycles[c].now - cycles[c].cities_to_update[k].updated_at[1] = StaleMinutes
              /\ k \notin cycles[c].done

\* C3: a refresh cycle that starts when no tracked point is stale (an empty
\* table included) starts no fetch and writes nothing: the tables and the
\* requests in flight are as before and the handler redirects.
C3_NoStaleNoOp ==
    [][\A c \in 1..MaxCycles :
          (Began(c) /\ \A i \in DOMAIN cities : Fresh(cities[i], clock)) =>
                /\ cities' = cities
                /\ default_cities' = default_cities
                /\ cycles' = cycles
                /\ ev'.status = 303
      ]_vars

\* A refresh returned at once over a table whose points are all fresh.
C3_Witness ==
    /\ ev.op = "update_begin" /\ ev.status = 303
    /\ DOMAIN cities # {}
    /\ \A i \in DOMAIN cities : Fresh(cities[i], clock)
    /\ \A c \in 1..MaxCycles : cycles[c].pc = "idle"

\* C4: a fetch answers unset on a non-200 status, a transport failure or a
\* missing temperature field, and the commit of a cycle leaves the row of an
\* entry whose fetch answered unset as it was; a fetch finishing writes no
\* row at all.
C4_FailedFetchKeepsRow ==
    [][/\ \A r \in Responses :
            (r.kind = "exception" \/ r.status # 200 \/ r.temperature = None)
                => fetch_weather(r) = None
       /\ \A c \in 1..MaxCycles :
            /\ Committed(c) =>
                  \A k \in 1..Len(cycles[c].cities_to_update) :
                      cycles[c].temperatures[k] = None =>
                          SameRow(cycles[c].cities_to_update[k].id)
            /\ Fetched(c) => cities' = cities
      ]_vars

\* A cycle committed after a fetch answered unset for a point that had a
\* reading, and the point still has reading and timestamp.
C4_Witness ==
    /\ ev.op = "update_commit" /\ ev.status = 303
    /\ \E k \in 1..Len(ev.temps) : ev.temps[k] = None
    /\ \E k \in 1..Len(ev.temps) : ev.temps[k] # None
    /\ \E i \in DOMAIN cities :
          cities[i].temperature # None /\ cities[i].updated_at # None
\* The entry is still the row it was loaded from: same id, name, coordinates.
StillThere(e) ==
    /\ e.id \in DOMAIN cities
    /\ cities[e.id].name = e.name
    /\ cities[e.id].latitude = e.latitude
    /\ cities[e.id].longitude = e.longitude

Applied(e, temp, now) ==
    /\ e.id \in DOMAIN cities'
    /\ cities'[e.id].temperature = temp
    /\ cities'[e.id].updated_at = Some(now)

\* C5: when the fetch for a stale entry answered a value, the commit of the
\* cycle leaves that entry with that value as temperature and the cycle's
\* now, taken when the cycle began, as updated_at.
C5_SuccessApplied ==
    [][\A c \in 1..MaxCycles :
          Committed(c) =>
              \A k \in 1..Len(cycles[c].cities_to_update) :
                  (cycles[c].temperatures[k] # None
                      /\ StillThere(cycles[c].cities_to_update[k]))
                  => Applied(cycles[c].cities_to_update[k],
                             cycles[c].temperatures[k], cycles[c].now)
      ]_vars

\* C6: in a cycle where some fetches answered unset and others a value, the
\* commit applies every value with the cycle's now, leaves the rows of the
\* failed entries as they were, and the handler answers its redirect.
C6_FailureIsolated ==
    [][\A c \in 1..MaxCycles :
          LET cy == cycles[c]
              failed == {k \in 1..Len(cy.cities_to_update) : cy.temperatures[k] = None}
              fine == {k \in 1..Len(cy.cities_to_update) : cy.temperatures[k] # None}
          IN  (Committed(c) /\ failed # {} /\ fine # {}) =>
                  /\ ev'.status = 303
                  /\ \A k \in fine :
                        StillThere(cy.cities_to_update[k]) =>
                            Applied(cy.cities_to_update[k], cy.temperatures[k], cy.now)
                  /\ \A k \in failed : SameRow(cy.cities_to_update[k].id)
      ]_vars

\* C7: every tracked point has its temperature set exactly when its
\* updated_at is set.
C7_ReadingIffTimestamp ==
    \A i \in DOMAIN cities :
        (cities[i].temperature = None) <=> (cities[i].updated_at = None)

\* C8: no two tracked points have the same name.
C8_UniqueNames ==
    \A i, j \in DOMAIN cities : cities[i].name = cities[j].name => i = j

\* An add was answered while the name was already tracked next to another.
C8_Witness ==
    /\ ev.op = "add"
    /\ Cardinality(DOMAIN cities) = MaxId
    /\ \E i \in DOMAIN cities : cities[i].name \in AddNames

\* C9: add of a name that is tracked changes no row; add of a name that is
\* not tracked inserts one row with the given coordinates and unset
\* temperature and updated_at and changes no other row; both redirect.
C9_AddFirstWriteWins ==
    [][\A n \in AddNames, p \in AddCoords :
          add_city(n, p[1], p[2]) =>
              /\ ev'.status = 303
              /\ IF \E i \in DOMAIN cities : cities[i].name = n
                 THEN cities' = cities
                 ELSE \E j \in DOMAIN cities' :
                        /\ j \notin DOMAIN cities
                        /\ DOMAIN cities' = DOMAIN cities \cup {j}
                        /\ cities'[j] = City(n, p[1], p[2], None, None)
                        /\ \A i \in DOMAIN cities : cities'[i] = cities[i]
      ]_vars

\* An add was answered and the tracked point of that name keeps coordinates
\* no add offers: the seed's.
C9_Witness ==
    /\ ev.op = "add" /\ ev.status = 303
    /\ \E i \in DOMAIN cities :
          /\ cities[i].name \in AddNames
          /\ <<cities[i].latitude, cities[i].longitude>> \notin AddCoords

\* C10: right after reset the tracked points are the seed list: one row per
\* seed with its name and coordinates, no other row, all with unset
\* temperature and updated_at; the seed list is as before.
C10_ResetToSeed ==
    [][ev'.op = "reset" =>
          /\ default_cities' = default_cities
          /\ Cardinality(DOMAIN cities') = Len(default_cities)
          /\ \A k \in 1..Len(default_cities) :
                \E i \in DOMAIN cities' :
                    cities'[i] = City(default_cities[k].name, default_cities[k].latitude,
                                      default_cities[k].longitude, None, None)
          /\ \A i \in DOMAIN cities' :
                \E k \in 1..Len(default_cities) :
                    cities'[i] = City(default_cities[k].name, default_cities[k].latitude,
                                      default_cities[k].longitude, None, None)
      ]_vars

\* A reset was answered over a non-empty seed list, while a cycle is in
\* flight that had loaded a point with a reading.
C10_Witness ==
    /\ ev.op = "reset" /\ ev.status = 303
    /\ default_cities # <<>>
    /\ Cardinality(DOMAIN cities) = Len(default_cities)
    /\ \E c \in 1..MaxCycles :
          /\ cycles[c].pc = "fetching"
          /\ \E k \in 1..Len(cycles[c].cities_to_update) :
                cycles[c].cities_to_update[k].temperature # None
\* ------------------------------------------------------ history of fetches
\* The entry's row holds the values the cycle loaded.
Unwritten(e) ==
    /\ StillThere(e)
    /\ cities[e.id].temperature = e.temperature
    /\ cities[e.id].updated_at = e.updated_at

\* hist: the ids of the rows whose latest fetch failed and that a failed
\* commit left stale, for as long as the row stays as that commit left it.
Track ==
    hist' =
        IF ev'.op = "reset" THEN {}
        ELSE {i \in hist : i \in DOMAIN cities /\ i \in DOMAIN cities'
                           /\ cities'[i] = cities[i]}
             \cup {i \in DOMAIN cities' :
                     \E c \in 1..MaxCycles :
                        /\ Committed(c)
                        /\ \E k \in 1..Len(cycles[c].cities_to_update) :
                              /\ cycles[c].cities_to_update[k].id = i
                              /\ cycles[c].temperatures[k] = None
                              /\ Unwritten(cycles[c].cities_to_update[k])
                              /\ Due(cities'[i], clock')}

NextHist ==
    \/ startup_event /\ Track
    \/ \E id \in 1..MaxId : remove_city(id) /\ Track
    \/ reset_cities /\ Track
    \/ \E n \in AddNames, p \in AddCoords :
          /\ NextRowId(cities) <= MaxId \/ \E i \in DOMAIN cities : cities[i].name = n
          /\ add_city(n, p[1], p[2])
          /\ Track
    \/ \E c \in 1..MaxCycles : update_weather_begin(c) /\ Track
    \/ \E c \in 1..MaxCycles, k \in 1..MaxId : fetch_done(c, k) /\ Track
    \/ \E c \in 1..MaxCycles : update_weather_commit(c) /\ Track
    \/ Tick /\ Track

SpecHist == Init /\ [][NextHist]_vars

\* C11: a commit leaves the row of an entry whose fetch failed as the cycle
\* loaded it, hence still stale; and every row that a failed fetch left stale
\* and that is as that commit left it is fetched, with its coordinates, by
\* any refresh cycle that starts.
C11_FailedIsRetried ==
    [][\A c \in 1..MaxCycles :
          /\ Committed(c) =>
                \A k \in 1..Len(cycles[c].cities_to_update) :
                    LET e == cycles[c].cities_to_update[k]
                    IN  (cycles[c].temperatures[k] = None /\ Unwritten(e)) =>
                            /\ SameRow(e.id)
                            /\ Due(cities'[e.id], clock')
                            /\ e.id \in hist'
          /\ Began(c) =>
                \A i \in hist :
                    /\ i \in DOMAIN cities
                    /\ \E k \in 1..Len(cycles'[c].tasks) :
                          /\ cycles'[c].cities_to_update[k].id = i
                          /\ cycles'[c].tasks[k].latitude = cities[i].latitude
                          /\ cycles'[c].tasks[k].longitude = cities[i].longitude
      ]_vars

\* A cycle has just started and fetches a row whose last fetch had failed.
C11_Witness ==
    /\ ev.op = "update_begin"
    /\ \E c \in 1..MaxCycles :
          /\ cycles[c].pc = "fetching"
          /\ cycles[c].done = {}
          /\ \E i \in hist : i \in IdsOf(cycles[c])
\* C12 as claimed: repeating add, remove, reset or refresh-all right after
\* it was served leaves the tracked rows as the first call left them,
\* whatever the repeated refresh's fetches return.
C12_IdempotentOnRetry ==
    [][/\ \A n \in AddNames, p \in AddCoords :
            (ev'.op = "add" /\ add_city(n, p[1], p[2])) => add_city_rows(cities', n, p[1], p[2]) = cities'
       /\ \A id \in 1..MaxId :
            (ev'.op = "remove" /\ remove_city(id)) => remove_city_rows(cities', id) = cities'
       /\ (ev'.op = "reset" /\ reset_cities) => reset_cities_rows(default_cities') = cities'
       /\ \A c \in 1..MaxCycles :
            Committed(c) =>
                \A temps \in [1..Len(ToUpdate(cities', clock')) -> Results] :
                    update_weather_rows(cities', clock', temps) = cities'
      ]_vars

\* C12 amended: add, remove and reset are idempotent; a refresh repeated
\* right after a cycle committed keeps the set of rows, leaves every row that
\* is fresh untouched, and changes nothing when no row is stale.
C12_IdempotentButRefresh ==
    [][/\ \A n \in AddNames, p \in AddCoords :
            (ev'.op = "add" /\ add_city(n, p[1], p[2])) => add_city_rows(cities', n, p[1], p[2]) = cities'
       /\ \A id \in 1..MaxId :
            (ev'.op = "remove" /\ remove_city(id)) => remove_city_rows(cities', id) = cities'
       /\ (ev'.op = "reset" /\ reset_cities) => reset_cities_rows(default_cities') = cities'
       /\ \A c \in 1..MaxCycles :
            Committed(c) =>
                \A temps \in [1..Len(ToUpdate(cities', clock')) -> Results] :
                    LET again == update_weather_rows(cities', clock', temps)
                    IN  /\ DOMAIN again = DOMAIN cities'
                        /\ \A i \in DOMAIN cities' :
                              Fresh(cities'[i], clock') => again[i] = cities'[i]
                        /\ (\A i \in DOMAIN cities' : Fresh(cities'[i], clock'))
                              => again = cities'
      ]_vars

\* A cycle committed a reading for one row and left another, whose fetch
\* failed, stale: a repeated refresh skips the first and fetches the second.
C12_Witness ==
    /\ ev.op = "update_commit" /\ ev.status = 303
    /\ \E k \in 1..Len(ev.temps) : ev.temps[k] = None
    /\ \E i \in DOMAIN cities : Fresh(cities[i], clock)
    /\ \E i \in DOMAIN cities : Due(cities[i], clock)
\* C13: once the seed list is loaded, no step (add, remove, reset, any step
\* of a refresh, a later startup whatever cities.csv then holds) changes it.
C13_SeedImmutable ==
    [][default_cities # <<>> => default_cities' = default_cities]_vars

\* A later startup: seed point Q already carries a reading when it runs.
C13_Witness ==
    /\ ev.op = "startup" /\ ev.status = 0
    /\ default_cities # <<>>
    /\ \E i \in DOMAIN cities :
          cities[i].name = "Q" /\ cities[i].temperature # None
\* C14: when the commit of a cycle finds that a row it fetched for is gone
\* (removed, or deleted by a reset), the handler answers its redirect, the
\* row stays gone, and every value fetched for a row still there is applied.
C14_RemovedIsSkipped ==
    [][\A c \in 1..MaxCycles :
          LET cy == cycles[c]
              gone == {k \in 1..Len(cy.cities_to_update) :
                          cy.cities_to_update[k].id \notin DOMAIN cities}
          IN  (Committed(c) /\ gone # {}) =>
                  /\ ev'.status = 303
                  /\ \A k \in gone : cy.cities_to_update[k].id \notin DOMAIN cities'
                  /\ \A k \in 1..Len(cy.cities_to_update) :
                        (k \notin gone /\ cy.temperatures[k] # None
                            /\ StillThere(cy.cities_to_update[k]))
                        => Applied(cy.cities_to_update[k], cy.temperatures[k], cy.now)
      ]_vars
\* C15: a cycle writes nothing while one of its fetches is in flight: its
\* begin and each fetch finishing leave every row alone, and it reaches its
\* commit, the first step that writes, only once all its fetches finished.
C15_NoWriteBeforeAllFetched ==
    [][\A c \in 1..MaxCycles :
          /\ (Began(c) \/ Fetched(c)) => cities' = cities
          /\ Fetched(c) => cycles'[c].pc = "fetching"
          /\ Committed(c) => cycles[c].done = 1..Len(cycles[c].tasks)
      ]_vars

\* A cycle of two fetches has committed a value.
C15_Witness ==
    /\ ev.op = "update_commit" /\ ev.status = 303
    /\ Len(ev.temps) = 2
    /\ \E k \in 1..2 : ev.temps[k] # None
    /\ \E i \in DOMAIN cities : cities[i].temperature # None
C17_EndsByCommit ==
    [][\A c \in 1..MaxCycles :
          (cycles[c].pc = "fetching" /\ cycles'[c].pc = "idle" /\ ev'.op # "startup") =>
              /\ Committed(c)
              /\ cycles[c].done = 1..Len(cycles[c].tasks)
              /\ ev'.status = 303
      ]_vars
\* C18: no step of a cycle creates or deletes a row or changes a name,
\* latitude or longitude, and the rows whose temperature or updated_at it
\* changes are rows the cycle loaded as stale when it began, still the same
\* id, name and coordinates.
C18_OnlyStaleEntriesWritten ==
    [][\A c \in 1..MaxCycles :
          (Began(c) \/ Fetched(c) \/ Committed(c)) =>
              /\ DOMAIN cities' = DOMAIN cities
              /\ \A i \in DOMAIN cities :
                    /\ cities'[i].name = cities[i].name
                    /\ cities'[i].latitude = cities[i].latitude
                    /\ cities'[i].longitude = cities[i].longitude
                    /\ cities'[i] # cities[i] =>
                          \E k \in 1..Len(cycles[c].cities_to_update) :
                              LET e == cycles[c].cities_to_update[k]
                              IN  e.id = i /\ StillThere(e) /\ Due(e, cycles[c].now)
      ]_vars

\* C19: a temperature stored by the commit of a cycle is the result of the
\* fetch that the cycle issued for the coordinates of the row it is stored on.
C19_ReadingFromOwnFetch ==
    [][\A c \in 1..MaxCycles :
          Committed(c) =>
              \A i \in DOMAIN cities' :
                  (i \in DOMAIN cities /\ cities'[i].temperature # cities[i].temperature) =>
                      \E k \in 1..Len(cycles[c].tasks) :
                          /\ cycles[c].cities_to_update[k].id = i
                          /\ cycles[c].tasks[k].latitude = cities'[i].latitude
                          /\ cycles[c].tasks[k].longitude = cities'[i].longitude
                          /\ cities'[i].temperature = cycles[c].temperatures[k]
      ]_vars
\* C20 as claimed: a commit of a cycle never leaves a row, that had
\* updated_at set, with an earlier updated_at, also when two cycles that
\* fetched the same row commit one after the other in either order.
C20_NeverBackwards ==
    [][\A c \in 1..MaxCycles :
          Committed(c) =>
              \A i \in DOMAIN cities :
                  cities[i].updated_at # None =>
                      /\ i \in DOMAIN cities'
                      /\ cities'[i].updated_at # None
                      /\ cities'[i].updated_at[1] >= cities[i].updated_at[1]
      ]_vars

\* C20 amended: a cycle that writes updated_at writes its own now, taken when
\* it began, on a row it loaded; that is at least 15 minutes after the value
\* it loaded, so updated_at does not move backwards when the row still holds
\* the value loaded. Begin and fetch steps leave updated_at alone.
C20_WritesOwnNow ==
    [][\A c \in 1..MaxCycles :
          /\ (Began(c) \/ Fetched(c)) => cities' = cities
          /\ Committed(c) =>
                /\ DOMAIN cities' = DOMAIN cities
                /\ \A i \in DOMAIN cities :
                      cities'[i].updated_at # cities[i].updated_at =>
                          \E k \in 1..Len(cycles[c].cities_to_update) :
                              LET e == cycles[c].cities_to_update[k]
                              IN  /\ e.id = i
                                  /\ cities'[i].updated_at = Some(cycles[c].now)
                                  /\ e.updated_at # None =>
                                        cycles[c].now >= e.updated_at[1] + StaleMinutes
                                  /\ cities[i].updated_at = e.updated_at =>
                                        \/ cities[i].updated_at = None
                                        \/ cycles[c].now >= cities[i].updated_at[1]
      ]_vars

\* A cycle that began at instant 0 has committed a value after time passed:
\* the row carries the cycle's now, not the instant of the commit.
C20_Witness ==
    /\ ev.op = "update_commit" /\ ev.status = 303
    /\ clock >= StaleMinutes
    /\ \E k \in 1..Len(ev.temps) : ev.temps[k] # None
    /\ \E i \in DOMAIN cities : cities[i].updated_at = Some(0)
    /\ \A i \in DOMAIN cities : cities[i].updated_at \in {None, Some(0)}
====
